---- MODULE Spec2Model ----
(***************************************************************************)
(* Model of the reporting pipeline of bassosimone/weekly:                  *)
(*   internal/pipeline/pipeline.go  Run, maybeFilterByProject,             *)
(*                                  maybeAggregate, maybeComputeTotal      *)
(*   internal/parser/parser.go      Parse, parseAll, parseSummary,         *)
(*                                  parseTimes                             *)
(*   internal/output/output.go      Write                                  *)
(*   cli/ls.go                      Parse followed by Run                  *)
(* Spec is one call of Run, SpecIter calls Run repeatedly with the order   *)
(* of map iteration left open, SpecParse is one call of Parse, SpecWrite   *)
(* one call of Write, SpecLs a call of Parse followed by a call of Run.    *)
(* One call of Run is a small state machine: the local variable `events`   *)
(* is reassigned three times (lines 33, 36, 42); each assignment is one    *)
(* step and its value is kept in its own variable.                         *)
(*                                                                         *)
(* Go values:                                                              *)
(*   string ordered by slices.Sorted  -> sequence of byte codes            *)
(*   other strings                    -> TLA+ strings (equality only)      *)
(*   []T                              -> [isNil, elems] (nil vs. empty)    *)
(*   time.Time                        -> civil fields in the value's own   *)
(*                                       offset, plus that offset (hours)  *)
(*   time.Duration                    -> integer: minutes in the pipeline  *)
(*                                       records, milliseconds out of Parse *)
(***************************************************************************)
EXTENDS Integers, Sequences, FiniteSets, TLC

VARIABLES config, inputs, afterFilter, afterAggregate, ret, calls, pc,
          mem, prev,
          rawInputs, parsed, parseRet, ppc,
          format, events, writer, written, werr, wpc

pipelineVars ==
    <<config, inputs, afterFilter, afterAggregate, ret, calls, pc, mem, prev>>

parserVars == <<rawInputs, parsed, parseRet, ppc>>

outputVars == <<format, events, writer, written, werr, wpc>>

vars == <<pipelineVars, parserVars, outputVars>>

----------------------------------------------------------------------------
(* Bounds of the model *)

\* longest record list handed to Run
MaxEvents == 3

----------------------------------------------------------------------------
(* Go slices: nil and empty are distinct values *)

NilSlice == [isNil |-> TRUE, elems |-> <<>>]

Slice(s) == [isNil |-> FALSE, elems |-> s]

\* append(s, x): the result is never nil
Append1(s, x) == [isNil |-> FALSE, elems |-> Append(s.elems, x)]

Range(s) == {s[i] : i \in 1..Len(s)}

----------------------------------------------------------------------------
(* Go strings that the code sorts: sequences of byte codes *)

mlab == <<109, 108, 97, 98>>

ne == <<110, 101>>

nexa == <<110, 101, 120, 97>>

EmptyString == <<>>

\* the order of Go's < on strings (bytewise lexicographic)
LexLess(a, b) ==
    \E i \in 1..(Len(a) + 1) :
        /\ \A j \in 1..(i - 1) : j <= Len(b) /\ a[j] = b[j]
        /\ \/ i = Len(a) + 1 /\ Len(b) >= i
           \/ i <= Len(a) /\ i <= Len(b) /\ a[i] < b[i]

\* a mutant of slicesSorted: descending order
RECURSIVE slicesSortedDesc(_)
slicesSortedDesc(S) ==
    IF S = {} THEN <<>>
    ELSE LET m == CHOOSE x \in S : \A y \in S : x = y \/ LexLess(y, x)
         IN  <<m>> \o slicesSortedDesc(S \ {m})

\* slices.Sorted(maps.Keys(m)): the keys in ascending order, whatever the
\* order the map yields them in
RECURSIVE slicesSorted(_)
slicesSorted(S) ==
    IF S = {} THEN <<>>
    ELSE LET m == CHOOSE x \in S : \A y \in S : x = y \/ LexLess(x, y)
         IN  <<m>> \o slicesSorted(S \ {m})

----------------------------------------------------------------------------
(* time.Time *)

Time(y, m, d, h, off) ==
    [year |-> y, month |-> m, day |-> d, hour |-> h, offset |-> off]

\* time.Time{}: what time.Parse returns together with an error
ZeroTime == Time(1, 1, 1, 0, 0)

IsLeap(y) == (y % 4 = 0 /\ y % 100 # 0) \/ y % 400 = 0

DaysIn(y, m) ==
    IF m = 2 THEN (IF IsLeap(y) THEN 29 ELSE 28)
    ELSE IF m \in {4, 6, 9, 11} THEN 30 ELSE 31

\* days since 1970-01-01 of a civil date (proleptic Gregorian)
DaysFromCivil(y, m, d) ==
    LET yy  == IF m <= 2 THEN y - 1 ELSE y
        era == yy \div 400
        yoe == yy - era * 400
        mp  == IF m > 2 THEN m - 3 ELSE m + 9
        doy == (153 * mp + 2) \div 5 + d - 1
        doe == yoe * 365 + yoe \div 4 - yoe \div 100 + doy
    IN  era * 146097 + doe - 719468

\* the civil date <<y, m, d>> of a day number
CivilFromDays(z0) ==
    LET z   == z0 + 719468
        era == z \div 146097
        doe == z - era * 146097
        yoe == (doe - doe \div 1460 + doe \div 36524 - doe \div 146096) \div 365
        doy == doe - (365 * yoe + yoe \div 4 - yoe \div 100)
        mp  == (5 * doy + 2) \div 153
        d   == doy - (153 * mp + 2) \div 5 + 1
        m   == IF mp < 10 THEN mp + 3 ELSE mp - 9
        y   == yoe + era * 400 + (IF m <= 2 THEN 1 ELSE 0)
    IN  <<y, m, d>>

\* the absolute instant of a time.Time, in hours since the Unix epoch
Instant(t) == DaysFromCivil(t.year, t.month, t.day) * 24 + t.hour - t.offset

\* t.UTC(): the same instant, civil fields at offset zero
UTC(t) ==
    LET h == Instant(t)
        c == CivilFromDays(h \div 24)
    IN  Time(c[1], c[2], c[3], h % 24, 0)

----------------------------------------------------------------------------
(* time.Time.Format and time.Parse for the two layouts of maybeAggregate *)

Dash == 45

DigitCode(d) == 48 + d

\* appendInt(b, x, width): decimal digits of x >= 0, zero-padded to width
RECURSIVE appendInt(_, _)
appendInt(x, width) ==
    IF x < 10 /\ width <= 1 THEN <<DigitCode(x)>>
    ELSE Append(appendInt(x \div 10, width - 1), DigitCode(x % 10))

\* t.Format(layout): the civil date of t in t's own offset
Format(t, layout) ==
    IF layout = "2006-01-02"
    THEN appendInt(t.year, 4) \o <<Dash>> \o appendInt(t.month, 2)
            \o <<Dash>> \o appendInt(t.day, 2)
    ELSE appendInt(t.year, 4) \o <<Dash>> \o appendInt(t.month, 2)

IsDigit(c) == c >= 48 /\ c <= 57

\* the number written by the digits s[from..to]
RECURSIVE atoi(_, _, _)
atoi(s, from, to) ==
    IF to < from THEN 0
    ELSE atoi(s, from, to - 1) * 10 + (s[to] - 48)

\* time.Parse(layout, value): a UTC time at 00:00 (day 1 when the layout has
\* no day); the zero time when the value does not match the layout
Parse(layout, value) ==
    LET want == IF layout = "2006-01-02" THEN 10 ELSE 7
        shape ==
            /\ Len(value) = want
            /\ \A i \in 1..want : IF i \in {5, 8} THEN value[i] = Dash
                                                  ELSE IsDigit(value[i])
        y == atoi(value, 1, 4)
        m == atoi(value, 6, 7)
        d == IF want = 10 THEN atoi(value, 9, 10) ELSE 1
    IN  IF shape /\ m \in 1..12 /\ d >= 1 /\ d <= DaysIn(y, m)
        THEN Time(y, m, d, 0, 0)
        ELSE ZeroTime

----------------------------------------------------------------------------
(* parser.Event *)

Event(project, activity, tags, persons, start, duration) ==
    [Project |-> project, Activity |-> activity, Tags |-> tags,
     Persons |-> persons, StartTime |-> start, Duration |-> duration]

\* the records Run is called with
EventUniverse ==
    { Event(nexa, "development", Slice(<<"neubot">>), Slice(<<>>),
            Time(2017, 11, 3, 10, 1), 60),
      Event(mlab, "meeting", Slice(<<"staff">>), Slice(<<"alice">>),
            Time(2017, 11, 3, 11, 1), 30),
      Event(nexa, "development", Slice(<<"ndt">>), Slice(<<>>),
            Time(2017, 11, 3, 14, 1), 45),
      Event(ne, "development", Slice(<<"ndt", "neubot">>), Slice(<<>>),
            Time(2017, 11, 3, 9, 0), 20),
      Event(nexa, "review", Slice(<<"ndt">>), Slice(<<>>),
            Time(2017, 11, 30, 23, -2), -15),
      Event(nexa, "meeting", Slice(<<>>), Slice(<<"bob">>),
            Time(2017, 12, 1, 0, 2), 45),
      Event(mlab, "development", Slice(<<"neubot">>), Slice(<<>>),
            Time(2018, 1, 1, 9, 0), 120) }

RECURSIVE SeqsUpTo(_, _)
SeqsUpTo(S, n) ==
    IF n = 0 THEN {<<>>}
    ELSE LET shorter == SeqsUpTo(S, n - 1)
         IN  shorter \cup {Append(s, x) : s \in shorter, x \in S}

InputLists ==
    {NilSlice} \cup {Slice(s) : s \in SeqsUpTo(EventUniverse, MaxEvents)}

\* pipeline.Config as the caller fills it in
Configs ==
    [Aggregate : {"", "daily", "weekly", "monthly", "biweekly"},
     Project   : {EmptyString, nexa},
     Tag       : {"", "neubot"},
     Total     : BOOLEAN]

----------------------------------------------------------------------------
(* errors *)

NoError == [kind |-> "nil", policy |-> "", valid |-> <<>>]

\* a mutant of InvalidAggregationPolicy: the message leaves the value out
InvalidAggregationPolicyUnnamed(policy) ==
    [kind |-> "InvalidAggregationPolicy", policy |-> "",
     valid |-> <<"daily", "monthly">>]

\* fmt.Errorf("invalid aggregation policy: %s (valid values: daily, monthly)", policy)
InvalidAggregationPolicy(policy) ==
    [kind |-> "InvalidAggregationPolicy", policy |-> policy,
     valid |-> <<"daily", "monthly">>]

----------------------------------------------------------------------------
(* maybeFilterByProject, pipeline.go:47-54 *)

\* the condition of line 49; the configuration's Tag is not an argument
keepEvent(project, ev) == project = EmptyString \/ ev.Project = project

\* the loop of lines 48-52: outputs starts nil and grows by append
RECURSIVE filterLoop(_, _, _)
filterLoop(project, evs, outputs) ==
    IF evs = <<>> THEN outputs
    ELSE filterLoop(project, Tail(evs),
                    IF keepEvent(project, Head(evs))
                    THEN Append1(outputs, Head(evs))
                    ELSE outputs)

\* a mutant of maybeFilterByProject: the loop starts at the second record
maybeFilterByProjectSkipFirst(project, in) ==
    filterLoop(project, IF in.elems = <<>> THEN <<>> ELSE Tail(in.elems), NilSlice)

maybeFilterByProject(project, in) == filterLoop(project, in.elems, NilSlice)

----------------------------------------------------------------------------
(* maybeAggregate, pipeline.go:56-94 *)

\* a mutant of policyKnown: the switch has no default case
policyKnownAny(policy) == TRUE

\* the cases of the switch that fall through to the aggregation (lines 62-65)
policyKnown(policy) == policy \in {"daily", "monthly"}

\* a mutant of timeFormatOf: the daily layout pasted into the monthly case
timeFormatOfPasted(policy) == "2006-01-02"

\* lines 62-65
timeFormatOf(policy) == IF policy = "daily" THEN "2006-01-02" ELSE "2006-01"

\* a mutant of timeKeyOf: the start time is normalised to UTC first
timeKeyOfUTC(timeFormat, ev) == Format(UTC(ev.StartTime), timeFormat)

\* line 73
timeKeyOf(timeFormat, ev) == Format(ev.StartTime, timeFormat)

\* a mutant of addDuration: = in place of +=
addDurationOverwrite(old, d) == d

\* the += of lines 77 and 112
addDuration(old, d) == old + d

EmptyMap == [k \in {} |-> 0]

MapGet(m, k, zero) == IF k \in DOMAIN m THEN m[k] ELSE zero

MapSet(m, k, v) == [x \in DOMAIN m \cup {k} |-> IF x = k THEN v ELSE m[x]]

\* a mutant of aggregateLoop: a period has one sum, kept under the project
\* of its first record
RECURSIVE aggregateLoopByPeriod(_, _, _)
aggregateLoopByPeriod(timeFormat, evs, sums) ==
    IF evs = <<>> THEN sums
    ELSE LET ev      == Head(evs)
             timeKey == timeKeyOf(timeFormat, ev)
             inner   == MapGet(sums, timeKey, EmptyMap)
             project == IF inner = EmptyMap THEN ev.Project
                        ELSE CHOOSE k \in DOMAIN inner : TRUE
             total   == addDuration(MapGet(inner, project, 0), ev.Duration)
         IN  aggregateLoopByPeriod(timeFormat, Tail(evs),
                           MapSet(sums, timeKey, MapSet(inner, project, total)))

\* the loop of lines 72-78 over a map of maps
RECURSIVE aggregateLoop(_, _, _)
aggregateLoop(timeFormat, evs, sums) ==
    IF evs = <<>> THEN sums
    ELSE LET ev      == Head(evs)
             timeKey == timeKeyOf(timeFormat, ev)
             inner   == MapGet(sums, timeKey, EmptyMap)
             total   == addDuration(MapGet(inner, ev.Project, 0), ev.Duration)
         IN  aggregateLoop(timeFormat, Tail(evs),
                           MapSet(sums, timeKey, MapSet(inner, ev.Project, total)))

\* a mutant of emitProjects: Tags and Persons are set to empty slices
RECURSIVE emitProjectsEmptySlices(_, _, _, _)
emitProjectsEmptySlices(day, inner, projects, outputs) ==
    IF projects = <<>> THEN outputs
    ELSE emitProjectsEmptySlices(day, inner, Tail(projects),
            Append1(outputs,
                    Event(Head(projects), "", Slice(<<>>), Slice(<<>>), day,
                          inner[Head(projects)])))

\* the inner loop of lines 84-91: Activity, Tags and Persons keep their zero
\* values
RECURSIVE emitProjects(_, _, _, _)
emitProjects(day, inner, projects, outputs) ==
    IF projects = <<>> THEN outputs
    ELSE emitProjects(day, inner, Tail(projects),
            Append1(outputs,
                    Event(Head(projects), "", NilSlice, NilSlice, day,
                          inner[Head(projects)])))

\* the outer loop of lines 81-92
RECURSIVE emitPeriods(_, _, _, _)
emitPeriods(timeFormat, sums, timeKeys, outputs) ==
    IF timeKeys = <<>> THEN outputs
    ELSE LET timeKey == Head(timeKeys)
             day     == Parse(timeFormat, timeKey)
         IN  emitPeriods(timeFormat, sums, Tail(timeKeys),
                emitProjects(day, sums[timeKey],
                             slicesSorted(DOMAIN sums[timeKey]), outputs))

maybeAggregate(policy, in) ==
    IF policy = "" THEN [outputs |-> in, err |-> NoError]
    ELSE IF ~policyKnown(policy)
    THEN [outputs |-> NilSlice, err |-> InvalidAggregationPolicy(policy)]
    ELSE LET timeFormat == timeFormatOf(policy)
             sums       == aggregateLoop(timeFormat, in.elems, EmptyMap)
         IN  [outputs |-> emitPeriods(timeFormat, sums,
                                      slicesSorted(DOMAIN sums), NilSlice),
              err |-> NoError]

----------------------------------------------------------------------------
(* maybeComputeTotal, pipeline.go:96-124 *)

\* a mutant of totalFirst: the first record's duration is left out
totalFirstZero(ev) ==
    Event(ev.Project, "", Slice(<<>>), Slice(<<>>), ev.StartTime, 0)

\* a mutant of totalFirst: Tags and Persons are copied from the record
totalFirstCopies(ev) ==
    Event(ev.Project, "", ev.Tags, ev.Persons, ev.StartTime, ev.Duration)

\* lines 102-109: the entry made for the first record of a project
totalFirst(ev) ==
    Event(ev.Project, "", Slice(<<>>), Slice(<<>>), ev.StartTime, ev.Duration)

\* a mutant of totalNext: the start time follows the latest record
totalNextLastWins(entry, ev) ==
    [entry EXCEPT !.Duration = addDuration(@, ev.Duration),
                  !.StartTime = ev.StartTime]

\* line 112: a later record of the project
totalNext(entry, ev) == [entry EXCEPT !.Duration = addDuration(@, ev.Duration)]

\* the loop of lines 100-113
RECURSIVE totalLoop(_, _)
totalLoop(evs, sum) ==
    IF evs = <<>> THEN sum
    ELSE LET ev == Head(evs)
         IN  totalLoop(Tail(evs),
                IF ev.Project \notin DOMAIN sum
                THEN MapSet(sum, ev.Project, totalFirst(ev))
                ELSE MapSet(sum, ev.Project, totalNext(sum[ev.Project], ev)))

\* lines 115-119: outputs is made non-nil, then filled in key order
RECURSIVE totalEmit(_, _, _)
totalEmit(sum, keys, outputs) ==
    IF keys = <<>> THEN outputs
    ELSE totalEmit(sum, Tail(keys), Append1(outputs, sum[Head(keys)]))

maybeComputeTotal(total, in) ==
    IF total
    THEN LET sum == totalLoop(in.elems, EmptyMap)
         IN  totalEmit(sum, slicesSorted(DOMAIN sum), Slice(<<>>))
    ELSE in

----------------------------------------------------------------------------
(* calendarapi.Event and the strings of the parser: sequences of byte codes *)

Space == 32

Hash == 35

Dollar == 36

Percent == 37

At == 64

Comma == 44

Period == 46

Colon == 58

Plus == 43

LetterT == 84

RawEvent(summary, start, end) ==
    [Summary |-> summary, StartTime |-> start, EndTime |-> end]

\* strings.Join(tokens, " ")
RECURSIVE Join(_)
Join(tokens) ==
    IF tokens = <<>> THEN <<>>
    ELSE IF Len(tokens) = 1 THEN tokens[1]
    ELSE tokens[1] \o <<Space>> \o Join(Tail(tokens))

----------------------------------------------------------------------------
(* time.Parse(timeFormat, input), parser.go:115-118, for the layout          *)
(* "2006-01-02T15:04:05-07:00"; times carry minutes, seconds, milliseconds   *)
(* and the minutes of the offset next to the fields of Time                  *)

DateTime(y, m, d, h, mi, sec, ms, off, offMin) ==
    [year |-> y, month |-> m, day |-> d, hour |-> h, offset |-> off,
     minute |-> mi, second |-> sec, msec |-> ms, offsetMinute |-> offMin]

ZeroDateTime == DateTime(1, 1, 1, 0, 0, 0, 0, 0, 0)

IsDigitAt(s, i) == i >= 1 /\ i <= Len(s) /\ IsDigit(s[i])

\* getnum(value, fixed): one or two digits (two when fixed) read at pos
getnum(s, pos, fixed) ==
    IF ~IsDigitAt(s, pos) THEN [ok |-> FALSE, val |-> 0, next |-> pos]
    ELSE IF ~IsDigitAt(s, pos + 1)
    THEN [ok |-> ~fixed, val |-> s[pos] - 48, next |-> pos + 1]
    ELSE [ok |-> TRUE, val |-> (s[pos] - 48) * 10 + (s[pos + 1] - 48),
          next |-> pos + 2]

\* the end of a run of digits starting at pos
RECURSIVE digitsEnd(_, _)
digitsEnd(s, pos) == IF IsDigitAt(s, pos) THEN digitsEnd(s, pos + 1) ELSE pos

\* the first three digits of a fraction, as milliseconds
fractionMs(s, from, to) ==
    LET d(i) == IF from + i < to THEN s[from + i] - 48 ELSE 0
    IN  d(0) * 100 + d(1) * 10 + d(2)

ParseFailed(st, why) == [st EXCEPT !.ok = FALSE, !.why = why]

\* a literal byte of the layout
literal(s, st, c) ==
    IF st.pos <= Len(s) /\ s[st.pos] = c
    THEN [st EXCEPT !.pos = st.pos + 1]
    ELSE ParseFailed(st, "cannot parse")

\* a number n read by getnum, stored in a field when within lo..hi
setField(st, n, field, lo, hi) ==
    IF ~n.ok THEN ParseFailed(st, "cannot parse")
    ELSE IF n.val < lo \/ n.val > hi THEN ParseFailed(st, "out of range")
    ELSE [st EXCEPT ![field] = n.val, !.pos = n.next]

\* the year: four digits
setYear(s, st) ==
    IF \A i \in st.pos..(st.pos + 3) : IsDigitAt(s, i)
    THEN [st EXCEPT !.year = atoi(s, st.pos, st.pos + 3), !.pos = st.pos + 4]
    ELSE ParseFailed(st, "cannot parse")

\* after the seconds: a period or comma and digits are taken as a fraction
\* of a second although the layout has none
setFraction(s, t) ==
    IF t.ok /\ t.pos + 1 <= Len(s) /\ s[t.pos] \in {Comma, Period}
            /\ IsDigitAt(s, t.pos + 1)
    THEN [t EXCEPT !.msec = fractionMs(s, t.pos + 1, digitsEnd(s, t.pos + 1)),
                   !.pos = digitsEnd(s, t.pos + 1)]
    ELSE t

\* the offset: sign, two digits, colon, two digits
setZone(st, sign, hr, mm) ==
    IF ~hr.ok \/ ~mm.ok \/ sign \notin {Plus, Dash}
    THEN ParseFailed(st, "cannot parse")
    ELSE IF hr.val > 24 \/ mm.val > 60 THEN ParseFailed(st, "out of range")
    ELSE [st EXCEPT !.offset = (IF sign = Plus THEN 1 ELSE -1) * hr.val,
                    !.offsetMinute = (IF sign = Plus THEN 1 ELSE -1) * mm.val,
                    !.pos = st.pos + 6]

\* one chunk of the layout applied to the text at st.pos
parseChunk(chunk, s, st) ==
    CASE chunk = "2006" -> setYear(s, st)
      [] chunk = "-" -> literal(s, st, Dash)
      [] chunk = "T" -> literal(s, st, LetterT)
      [] chunk = ":" -> literal(s, st, Colon)
      [] chunk = "01" -> setField(st, getnum(s, st.pos, TRUE), "month", 1, 12)
      [] chunk = "02" -> setField(st, getnum(s, st.pos, TRUE), "day", 0, 99)
      [] chunk = "15" -> setField(st, getnum(s, st.pos, FALSE), "hour", 0, 23)
      [] chunk = "04" -> setField(st, getnum(s, st.pos, TRUE), "minute", 0, 59)
      [] chunk = "05" ->
           setFraction(s, setField(st, getnum(s, st.pos, TRUE), "second", 0, 59))
      [] chunk = "-07:00" ->
           IF Len(s) - st.pos + 1 < 6 \/ s[st.pos + 3] # Colon
           THEN ParseFailed(st, "cannot parse")
           ELSE setZone(st, s[st.pos],
                        getnum(SubSeq(s, st.pos + 1, st.pos + 2), 1, TRUE),
                        getnum(SubSeq(s, st.pos + 4, st.pos + 5), 1, TRUE))

RECURSIVE parseChunks(_, _, _)
parseChunks(chunks, s, st) ==
    IF chunks = <<>> \/ ~st.ok THEN st
    ELSE parseChunks(Tail(chunks), s, parseChunk(Head(chunks), s, st))

LayoutChunks ==
    <<"2006", "-", "01", "-", "02", "T", "15", ":", "04", ":", "05", "-07:00">>

ParseStart ==
    [ok |-> TRUE, why |-> "", pos |-> 1, year |-> 0, month |-> 0,
     day |-> 0, hour |-> 0, minute |-> 0, second |-> 0, msec |-> 0,
     offset |-> 0, offsetMinute |-> 0]

NoTime(why) == [ok |-> FALSE, time |-> ZeroDateTime, why |-> why]

\* the end of time.Parse: nothing may follow, the day must exist
parseEnd(s, st) ==
    IF ~st.ok THEN NoTime(st.why)
    ELSE IF st.pos <= Len(s) THEN NoTime("extra text")
    ELSE IF st.day < 1 \/ st.day > DaysIn(st.year, st.month)
    THEN NoTime("out of range")
    ELSE [ok |-> TRUE, why |-> "",
          time |-> DateTime(st.year, st.month, st.day, st.hour, st.minute,
                            st.second, st.msec, st.offset, st.offsetMinute)]

\* time.Parse(timeFormat, input): [ok, time, why]
timeParse(s) == parseEnd(s, parseChunks(LayoutChunks, s, ParseStart))

\* the milliseconds from 00:00 UTC of the civil day of t to the instant of t
MsOfDay(t) ==
    ((t.hour - t.offset) * 60 + (t.minute - t.offsetMinute)) * 60000
        + t.second * 1000 + t.msec

\* a mutant of timeSub: the difference of the wall clocks, offsets ignored
timeSubWallClock(t, u) ==
    (DaysFromCivil(t.year, t.month, t.day)
        - DaysFromCivil(u.year, u.month, u.day)) * 86400000
      + (MsOfDay(t) + (t.offset * 60 + t.offsetMinute) * 60000)
      - (MsOfDay(u) + (u.offset * 60 + u.offsetMinute) * 60000)

\* t.Sub(u), in milliseconds: the difference of the two instants
timeSub(t, u) ==
    (DaysFromCivil(t.year, t.month, t.day)
        - DaysFromCivil(u.year, u.month, u.day)) * 86400000
      + MsOfDay(t) - MsOfDay(u)

----------------------------------------------------------------------------
(* Parse, parser.go:37-139 *)

NoRawEvent == RawEvent(<<>>, <<>>, <<>>)

NoParseError == [kind |-> "nil", event |-> NoRawEvent, cause |-> ""]

\* fmt.Errorf("... in %s", ev) and fmt.Errorf("... in %s: %w", ev, err): the
\* message names the raw event and, for the time errors, wraps the cause
ParseError(kind, ev, cause) == [kind |-> kind, event |-> ev, cause |-> cause]

\* lines 41-48
NewEvent == Event(<<>>, <<>>, Slice(<<>>), Slice(<<>>), ZeroDateTime, 0)

\* strings.SplitSeq(s, " "): the pieces between single spaces, empty ones
\* included
RECURSIVE SplitSeq(_)
SplitSeq(s) ==
    IF \A i \in 1..Len(s) : s[i] # Space THEN <<s>>
    ELSE LET i == CHOOSE k \in 1..Len(s) :
                      s[k] = Space /\ \A j \in 1..(k - 1) : s[j] # Space
         IN  <<SubSeq(s, 1, i - 1)>> \o SplitSeq(SubSeq(s, i + 1, Len(s)))

\* a mutant of CutPrefix: the token is taken whether or not the prefix is there
CutPrefixAlways(token, c) ==
    [found |-> TRUE,
     rest  |-> IF Len(token) >= 1 /\ token[1] = c THEN Tail(token) ELSE token]

\* strings.CutPrefix(token, c)
CutPrefix(token, c) ==
    IF Len(token) >= 1 /\ token[1] = c
    THEN [found |-> TRUE, rest |-> Tail(token)]
    ELSE [found |-> FALSE, rest |-> token]

\* a mutant of missingProjectOrActivity: && in place of ||
missingProjectAndActivity(e) == e.Project = <<>> /\ e.Activity = <<>>

\* line 107
missingProjectOrActivity(e) == e.Project = <<>> \/ e.Activity = <<>>

\* a mutant of appendName: the name replaces the list
appendNameOverwrite(names, name) == Slice(<<name>>)

\* lines 93 and 99
appendName(names, name) == Append1(names, name)

\* the loop of lines 71-104 followed by the check of lines 107-109
RECURSIVE summaryLoop(_, _, _)
summaryLoop(e, tokens, ev) ==
    IF tokens = <<>>
    THEN IF missingProjectOrActivity(e)
         THEN [e |-> e, err |-> ParseError("MissingProjectOrActivity", ev, "")]
         ELSE [e |-> e, err |-> NoParseError]
    ELSE LET token == Head(tokens)
             proj  == CutPrefix(token, Dollar)
             act   == CutPrefix(token, Percent)
             tag   == CutPrefix(token, Hash)
             pers  == CutPrefix(token, At)
         IN  IF proj.found
             THEN IF e.Project # <<>>
                  THEN [e |-> e, err |-> ParseError("MultipleProjects", ev, "")]
                  ELSE summaryLoop([e EXCEPT !.Project = proj.rest],
                                   Tail(tokens), ev)
             ELSE IF act.found
             THEN IF e.Activity # <<>>
                  THEN [e |-> e, err |-> ParseError("MultipleActivities", ev, "")]
                  ELSE summaryLoop([e EXCEPT !.Activity = act.rest],
                                   Tail(tokens), ev)
             ELSE IF tag.found
             THEN summaryLoop([e EXCEPT !.Tags = appendName(@, tag.rest)],
                              Tail(tokens), ev)
             ELSE IF pers.found
             THEN summaryLoop([e EXCEPT !.Persons = appendName(@, pers.rest)],
                              Tail(tokens), ev)
             ELSE summaryLoop(e, Tail(tokens), ev)

\* lines 68-112
parseSummary(e, ev) == summaryLoop(e, SplitSeq(ev.Summary), ev)

\* a mutant of parseTimes: the end time is parsed first
parseTimesEndFirst(e, ev) ==
    LET start == timeParse(ev.StartTime)
        end   == timeParse(ev.EndTime)
    IN  IF ~end.ok
        THEN [e |-> e, err |-> ParseError("InvalidEndTime", ev, end.why)]
        ELSE IF ~start.ok
        THEN [e |-> e, err |-> ParseError("InvalidStartTime", ev, start.why)]
        ELSE [e |-> [e EXCEPT !.StartTime = start.time,
                              !.Duration = timeSub(end.time, start.time)],
              err |-> NoParseError]

\* lines 127-139
parseTimes(e, ev) ==
    LET start == timeParse(ev.StartTime)
        end   == timeParse(ev.EndTime)
    IN  IF ~start.ok
        THEN [e |-> e, err |-> ParseError("InvalidStartTime", ev, start.why)]
        ELSE IF ~end.ok
        THEN [e |-> [e EXCEPT !.StartTime = start.time],
              err |-> ParseError("InvalidEndTime", ev, end.why)]
        ELSE [e |-> [e EXCEPT !.StartTime = start.time,
                              !.Duration = timeSub(end.time, start.time)],
              err |-> NoParseError]

\* lines 58-66
parseAll(e, ev) ==
    LET r == parseSummary(e, ev)
    IN  IF r.err # NoParseError THEN r ELSE parseTimes(r.e, ev)

----------------------------------------------------------------------------
(* the raw events Parse is called with *)

\* most tokens in a summary
MaxTokens == 4

\* ""
TokEmpty == <<>>

\* "x"
TokWord == <<120>>

\* "$"
TokDollar == <<36>>

\* "$n"
TokProject == <<36, 110>>

\* "%"
TokPercent == <<37>>

\* "%d"
TokActivity == <<37, 100>>

\* "#t"
TokTagT == <<35, 116>>

\* "#u"
TokTagU == <<35, 117>>

\* "@p"
TokPersonP == <<64, 112>>

\* the tokens met in every arrangement
Tokens ==
    {TokEmpty, TokWord, TokDollar, TokProject, TokActivity,
     TokTagT, TokTagU, TokPersonP}

\* summaries around a bare %
PercentSummaries ==
    {Join(ts) : ts \in {<<TokPercent>>, <<TokProject, TokPercent>>,
                        <<TokPercent, TokActivity, TokProject>>,
                        <<TokActivity, TokPercent, TokProject>>,
                        <<TokActivity, TokActivity, TokProject>>,
                        <<TokProject, TokProject, TokActivity, TokActivity>>}}

Summaries ==
    {Join(ts) : ts \in SeqsUpTo(Tokens, MaxTokens)} \cup PercentSummaries

\* "2017-11-03T10:00:00+01:00"
TsTen == <<50, 48, 49, 55, 45, 49, 49, 45, 48, 51, 84, 49, 48, 58, 48, 48, 58, 48, 48, 43, 48, 49, 58, 48, 48>>

\* "2017-11-03T11:00:00+01:00"
TsEleven == <<50, 48, 49, 55, 45, 49, 49, 45, 48, 51, 84, 49, 49, 58, 48, 48, 58, 48, 48, 43, 48, 49, 58, 48, 48>>

\* "2017-11-03T09:30:00-02:00"
TsOtherOffset == <<50, 48, 49, 55, 45, 49, 49, 45, 48, 51, 84, 48, 57, 58, 51, 48, 58, 48, 48, 45, 48, 50, 58, 48, 48>>

\* "invalid"
TsWord == <<105, 110, 118, 97, 108, 105, 100>>

\* ""
TsEmpty == <<>>

\* "2017-11-03T10:00:00Z"
TsZulu == <<50, 48, 49, 55, 45, 49, 49, 45, 48, 51, 84, 49, 48, 58, 48, 48, 58, 48, 48, 90>>

\* "2017-11-03T10:00:00.500+01:00"
TsFraction == <<50, 48, 49, 55, 45, 49, 49, 45, 48, 51, 84, 49, 48, 58, 48, 48, 58, 48, 48, 46, 53, 48, 48, 43, 48, 49, 58, 48, 48>>

\* "2017-11-03T9:00:00+01:00"
TsShortHour == <<50, 48, 49, 55, 45, 49, 49, 45, 48, 51, 84, 57, 58, 48, 48, 58, 48, 48, 43, 48, 49, 58, 48, 48>>

\* "2017-02-30T10:00:00+01:00"
TsFebruary30 == <<50, 48, 49, 55, 45, 48, 50, 45, 51, 48, 84, 49, 48, 58, 48, 48, 58, 48, 48, 43, 48, 49, 58, 48, 48>>

\* "2017-11-03T10:00:00+01:00x"
TsTrailing == <<50, 48, 49, 55, 45, 49, 49, 45, 48, 51, 84, 49, 48, 58, 48, 48, 58, 48, 48, 43, 48, 49, 58, 48, 48, 120>>

\* "2017-11-03 10:00:00+01:00"
TsBlank == <<50, 48, 49, 55, 45, 49, 49, 45, 48, 51, 32, 49, 48, 58, 48, 48, 58, 48, 48, 43, 48, 49, 58, 48, 48>>

TimeStrings ==
    {TsTen, TsEleven, TsOtherOffset, TsWord, TsEmpty, TsZulu, TsFraction,
     TsShortHour, TsFebruary30, TsTrailing, TsBlank}

\* summaries met with every pair of time strings
FewSummaries ==
    {Join(<<TokProject, TokActivity>>), Join(<<TokProject, TokProject>>), <<>>}

RawUniverse ==
    {RawEvent(sm, TsTen, TsEleven) : sm \in Summaries}
        \cup {RawEvent(sm, a, b) : sm \in FewSummaries, a, b \in TimeStrings}

\* raw events met in lists of two
LeadRaw ==
    {RawEvent(Join(<<TokProject, TokActivity, TokTagT>>), TsTen, TsEleven),
     RawEvent(Join(<<TokActivity, TokProject>>), TsEleven, TsOtherOffset),
     RawEvent(Join(<<TokProject>>), TsTen, TsEleven),
     RawEvent(Join(<<TokProject, TokActivity>>), TsWord, TsEleven)}

RawLists ==
    {<<>>} \cup {<<r>> : r \in RawUniverse}
        \cup {<<a, b>> : a, b \in LeadRaw}

NoParseReturn == [events |-> NilSlice, err |-> NoParseError]

\* no call of Parse is under way
ParserIdle ==
    /\ rawInputs = <<>>
    /\ parsed = NilSlice
    /\ parseRet = NoParseReturn
    /\ ppc = "idle"

----------------------------------------------------------------------------
(* Write, output.go:22-100. What is written is kept as rows of cells; the   *)
(* text of a cell is left unformatted                                        *)

NoWriteError == [kind |-> "nil", valid |-> <<>>]

\* line 37
UnknownFormat ==
    [kind |-> "UnknownFormat", valid |-> <<"box", "csv", "invoice", "json">>]

\* the error of a writer that refuses what it is handed
WriterError == [kind |-> "WriterError", valid |-> <<>>]

\* lines 44, 55-62, 73-80, 92-96: the row made for one record
rowOf(fmt, ev) ==
    CASE fmt = "json" -> <<"json", ev>>
      [] fmt = "csv" ->
           <<"csv", ev.StartTime, ev.Duration, ev.Project, ev.Activity,
             ev.Tags.elems, ev.Persons.elems>>
      [] fmt = "box" ->
           <<"box", ev.StartTime, ev.Duration, ev.Project, ev.Activity,
             ev.Tags.elems, ev.Persons.elems>>
      [] fmt = "invoice" -> <<"invoice", ev.Project, ev.StartTime, ev.Duration>>

\* line 70: the box format starts with a header
headerOf(fmt) ==
    IF fmt = "box"
    THEN <<<<"StartTime", "Hours", "Project", "Activity", "Tags", "Persons">>>>
    ELSE <<>>

rowsOf(fmt, evs) == headerOf(fmt) \o [i \in 1..Len(evs) |-> rowOf(fmt, evs[i])]

\* the rows handed to the writer w: kept, or refused with an error
emit(w, rows) ==
    IF rows = <<>> THEN [err |-> NoWriteError, written |-> <<>>]
    ELSE IF w = "fails" THEN [err |-> WriterError, written |-> <<>>]
    ELSE [err |-> NoWriteError, written |-> rows]

\* a mutant of Write: an unknown format is written as json
WriteDefaultJSON(w, fmt, evs) ==
    IF fmt \in {"box", "csv", "invoice"}
    THEN emit(w, rowsOf(fmt, evs.elems))
    ELSE emit(w, rowsOf("json", evs.elems))

\* lines 22-39
Write(w, fmt, evs) ==
    IF fmt \in {"box", "csv", "invoice", "json"}
    THEN emit(w, rowsOf(fmt, evs.elems))
    ELSE [err |-> UnknownFormat, written |-> <<>>]

\* no call of Write is under way
OutputIdle ==
    /\ format = ""
    /\ events = NilSlice
    /\ writer = "ok"
    /\ written = <<>>
    /\ werr = NoWriteError
    /\ wpc = "idle"

----------------------------------------------------------------------------
(* Run, pipeline.go:31-45 *)

NoReturn == [events |-> NilSlice, err |-> NoError]

\* the backing arrays of the lists of one call: arrays holds their contents
\* in the order they were made, at tells which array each list of the call
\* points to (0: the list is nil and has none)
NoMem ==
    [arrays |-> <<>>,
     at |-> [inputs |-> 0, afterFilter |-> 0, afterAggregate |-> 0, ret |-> 0]]

\* the caller's list, made before the call
callerMem(in) ==
    IF in.isNil THEN NoMem
    ELSE [arrays |-> <<in.elems>>, at |-> [NoMem.at EXCEPT !.inputs = 1]]

\* a list built by append from nil, or by make: a new array unless it is nil
newList(m, name, list) ==
    IF list.isNil THEN [m EXCEPT !.at[name] = 0]
    ELSE [arrays |-> Append(m.arrays, list.elems),
          at |-> [m.at EXCEPT ![name] = Len(m.arrays) + 1]]

\* return inputs: the list returned is the list received
sameList(m, name, from) == [m EXCEPT !.at[name] = m.at[from]]

\* lines 61, 67, 86: what maybeAggregate returns points to
aggregateMem(m, policy, outputs) ==
    IF policy = "" THEN sameList(m, "afterAggregate", "afterFilter")
    ELSE newList(m, "afterAggregate", outputs)

\* lines 115, 122: what maybeComputeTotal returns points to
totalMem(m, total, outputs) ==
    IF total THEN newList(m, "ret", outputs)
    ELSE sameList(m, "ret", "afterAggregate")

Init ==
    /\ config \in Configs
    /\ inputs \in InputLists
    /\ afterFilter = NilSlice
    /\ afterAggregate = NilSlice
    /\ ret = NoReturn
    /\ calls = <<>>
    /\ pc = "filter"
    /\ mem = callerMem(inputs)
    /\ prev = <<>>
    /\ ParserIdle
    /\ OutputIdle

\* line 33
RunFilter ==
    /\ pc = "filter"
    /\ afterFilter' = maybeFilterByProject(config.Project, inputs)
    /\ calls' = Append(calls, "maybeFilterByProject")
    /\ pc' = "aggregate"
    /\ mem' = newList(mem, "afterFilter", afterFilter')
    /\ UNCHANGED <<config, inputs, afterAggregate, ret, prev, parserVars, outputVars>>

\* a mutant of RunAggregate: the unfiltered list is aggregated
RunAggregateUnfiltered ==
    /\ pc = "aggregate"
    /\ LET r == maybeAggregate(config.Aggregate, inputs)
       IN  /\ afterAggregate' = r.outputs
           /\ IF r.err # NoError
              THEN ret' = [events |-> NilSlice, err |-> r.err] /\ pc' = "done"
              ELSE ret' = ret /\ pc' = "total"
    /\ calls' = Append(calls, "maybeAggregate")
    /\ mem' = aggregateMem(mem, config.Aggregate, afterAggregate')
    /\ UNCHANGED <<config, inputs, afterFilter, prev, parserVars, outputVars>>

\* lines 36-39
RunAggregate ==
    /\ pc = "aggregate"
    /\ LET r == maybeAggregate(config.Aggregate, afterFilter)
       IN  /\ afterAggregate' = r.outputs
           /\ IF r.err # NoError
              THEN ret' = [events |-> NilSlice, err |-> r.err] /\ pc' = "done"
              ELSE ret' = ret /\ pc' = "total"
    /\ calls' = Append(calls, "maybeAggregate")
    /\ mem' = aggregateMem(mem, config.Aggregate, afterAggregate')
    /\ UNCHANGED <<config, inputs, afterFilter, prev, parserVars, outputVars>>

\* lines 42-44
RunTotal ==
    /\ pc = "total"
    /\ ret' = [events |-> maybeComputeTotal(config.Total, afterAggregate),
               err |-> NoError]
    /\ calls' = Append(calls, "maybeComputeTotal")
    /\ pc' = "done"
    /\ mem' = totalMem(mem, config.Total, ret'.events)
    /\ UNCHANGED <<config, inputs, afterFilter, afterAggregate, prev, parserVars, outputVars>>

Next == RunFilter \/ RunAggregate \/ RunTotal

Spec == Init /\ [][Next]_vars

----------------------------------------------------------------------------
(* Run with the iteration order of its maps made explicit, and called again  *)
(* with the same arguments; prev holds what the call before returned         *)

\* the sequences that hold every element of S once
Orders(S) ==
    {f \in [1..Cardinality(S) -> S] :
        \A i, j \in 1..Cardinality(S) : i # j => f[i] # f[j]}

\* maps.Keys(m): every key once, in an order the runtime picks
mapsKeys(m) == Orders(DOMAIN m)

\* a key put at its place in an ascending sequence
insertKey(sorted, k) ==
    LET n == Cardinality({i \in 1..Len(sorted) : LexLess(sorted[i], k)})
    IN  SubSeq(sorted, 1, n) \o <<k>> \o SubSeq(sorted, n + 1, Len(sorted))

\* a mutant of slicesSortedSeq: the keys are collected as iterated
slicesCollect(keys) == keys

\* slices.Sorted(keys): the keys collected as iterated, then sorted
RECURSIVE slicesSortedSeq(_)
slicesSortedSeq(keys) ==
    IF keys = <<>> THEN <<>>
    ELSE insertKey(slicesSortedSeq(Tail(keys)), Head(keys))

\* the map of lines 71-78, empty when the policy stops maybeAggregate before
sumsOf(policy, in) ==
    IF policy = "" \/ ~policyKnown(policy) THEN EmptyMap
    ELSE aggregateLoop(timeFormatOf(policy), in.elems, EmptyMap)

ProjectsOf(in) == {in.elems[i].Project : i \in 1..Len(in.elems)}

\* the keys of one inner map, in the order projects lists them
innerKeys(inner, projects) == SelectSeq(projects, LAMBDA p : p \in DOMAIN inner)

\* lines 81-92 with the keys as iterated: timeKeys for the outer map, projects
\* for every inner map
RECURSIVE emitPeriodsIter(_, _, _, _, _)
emitPeriodsIter(timeFormat, sums, timeKeys, projects, outputs) ==
    IF timeKeys = <<>> THEN outputs
    ELSE emitPeriodsIter(timeFormat, sums, Tail(timeKeys), projects,
            emitProjects(Parse(timeFormat, Head(timeKeys)), sums[Head(timeKeys)],
                         innerKeys(sums[Head(timeKeys)], projects), outputs))

\* lines 81 and 84: each sequence of keys goes through slices.Sorted
emitSorted(timeFormat, sums, timeKeys, projects) ==
    emitPeriodsIter(timeFormat, sums, slicesSortedSeq(timeKeys),
                    slicesSortedSeq(projects), NilSlice)

maybeAggregateIter(policy, in, timeKeys, projects) ==
    IF policy = "" THEN [outputs |-> in, err |-> NoError]
    ELSE IF ~policyKnown(policy)
    THEN [outputs |-> NilSlice, err |-> InvalidAggregationPolicy(policy)]
    ELSE [outputs |-> emitSorted(timeFormatOf(policy), sumsOf(policy, in),
                                 timeKeys, projects),
          err |-> NoError]

maybeComputeTotalIter(total, in, keys) ==
    IF total
    THEN totalEmit(totalLoop(in.elems, EmptyMap), slicesSortedSeq(keys),
                   Slice(<<>>))
    ELSE in

\* the result of maybeAggregate stored, lines 36-39
aggregateDone(r) ==
    /\ afterAggregate' = r.outputs
    /\ IF r.err # NoError
       THEN ret' = [events |-> NilSlice, err |-> r.err] /\ pc' = "done"
       ELSE ret' = ret /\ pc' = "total"
    /\ calls' = Append(calls, "maybeAggregate")
    /\ mem' = aggregateMem(mem, config.Aggregate, afterAggregate')
    /\ UNCHANGED <<config, inputs, afterFilter, prev, parserVars, outputVars>>

\* lines 36-39
IterAggregate ==
    /\ pc = "aggregate"
    /\ \E timeKeys \in mapsKeys(sumsOf(config.Aggregate, afterFilter)) :
          \E projects \in Orders(ProjectsOf(afterFilter)) :
              aggregateDone(maybeAggregateIter(config.Aggregate, afterFilter,
                                               timeKeys, projects))

\* lines 42-44
IterTotal ==
    /\ pc = "total"
    /\ \E keys \in mapsKeys(totalLoop(afterAggregate.elems, EmptyMap)) :
          ret' = [events |-> maybeComputeTotalIter(config.Total, afterAggregate, keys),
                  err |-> NoError]
    /\ calls' = Append(calls, "maybeComputeTotal")
    /\ pc' = "done"
    /\ mem' = totalMem(mem, config.Total, ret'.events)
    /\ UNCHANGED <<config, inputs, afterFilter, afterAggregate, prev, parserVars, outputVars>>

\* Run is called once more with the same config and the same list
RunAgain ==
    /\ pc = "done"
    /\ prev' = <<ret>>
    /\ pc' = "filter"
    /\ afterFilter' = NilSlice
    /\ afterAggregate' = NilSlice
    /\ ret' = NoReturn
    /\ calls' = <<>>
    /\ mem' = callerMem(inputs)
    /\ UNCHANGED <<config, inputs, parserVars, outputVars>>

NextIter == RunFilter \/ IterAggregate \/ IterTotal \/ RunAgain

\* The Config of pipeline.go has no Tag field, so the repeated calls are
\* drawn with Tag unset: no line of Run reads it.
InitIter ==
    /\ Init
    /\ config.Tag = ""

SpecIter == InitIter /\ [][NextIter]_vars

----------------------------------------------------------------------------
(* Parse, parser.go:37-56, one step per raw event *)

\* no call of Run is under way
PipelineIdle ==
    /\ config = [Aggregate |-> "", Project |-> EmptyString, Tag |-> "",
                 Total |-> FALSE]
    /\ inputs = NilSlice
    /\ afterFilter = NilSlice
    /\ afterAggregate = NilSlice
    /\ ret = NoReturn
    /\ calls = <<>>
    /\ pc = "idle"
    /\ mem = NoMem
    /\ prev = <<>>

\* line 38
InitParse ==
    /\ rawInputs \in RawLists
    /\ parsed = Slice(<<>>)
    /\ parseRet = NoParseReturn
    /\ ppc = "loop"
    /\ PipelineIdle
    /\ OutputIdle

\* a mutant of ParseEvent: on error the records decoded so far are returned
ParseEventPartial ==
    /\ ppc = "loop"
    /\ Len(parsed.elems) < Len(rawInputs)
    /\ LET r == parseAll(NewEvent, rawInputs[Len(parsed.elems) + 1])
       IN  IF r.err # NoParseError
           THEN /\ parseRet' = [events |-> parsed, err |-> r.err]
                /\ ppc' = "done"
                /\ parsed' = parsed
           ELSE /\ parsed' = Append1(parsed, r.e)
                /\ UNCHANGED <<parseRet, ppc>>
    /\ UNCHANGED <<rawInputs, pipelineVars, outputVars>>

\* lines 40-53: one iteration of the loop
ParseEvent ==
    /\ ppc = "loop"
    /\ Len(parsed.elems) < Len(rawInputs)
    /\ LET r == parseAll(NewEvent, rawInputs[Len(parsed.elems) + 1])
       IN  IF r.err # NoParseError
           THEN /\ parseRet' = [events |-> NilSlice, err |-> r.err]
                /\ ppc' = "done"
                /\ parsed' = parsed
           ELSE /\ parsed' = Append1(parsed, r.e)
                /\ UNCHANGED <<parseRet, ppc>>
    /\ UNCHANGED <<rawInputs, pipelineVars, outputVars>>

\* line 55
ParseReturn ==
    /\ ppc = "loop"
    /\ Len(parsed.elems) = Len(rawInputs)
    /\ parseRet' = [events |-> parsed, err |-> NoParseError]
    /\ ppc' = "done"
    /\ UNCHANGED <<rawInputs, parsed, pipelineVars, outputVars>>

NextParse == ParseEvent \/ ParseReturn

SpecParse == InitParse /\ [][NextParse]_vars

----------------------------------------------------------------------------
(* Write, output.go:22-39, as one step *)

\* the formats Write is called with
Formats == {"box", "csv", "invoice", "json", "invalid", "", "JSON", "yaml"}

InitWrite ==
    /\ format \in Formats
    /\ events \in InputLists
    /\ writer \in {"ok", "fails"}
    /\ written = <<>>
    /\ werr = NoWriteError
    /\ wpc = "call"
    /\ PipelineIdle
    /\ ParserIdle

\* lines 22-39
WriteCall ==
    /\ wpc = "call"
    /\ written' = Write(writer, format, events).written
    /\ werr' = Write(writer, format, events).err
    /\ wpc' = "done"
    /\ UNCHANGED <<format, events, writer, pipelineVars, parserVars>>

NextWrite == WriteCall

SpecWrite == InitWrite /\ [][NextWrite]_vars

----------------------------------------------------------------------------
(* weekly ls, cli/ls.go: Parse, then Run on what Parse returned *)

\* "2017-11-30T23:00:00-02:00"
TsLateDay == <<50, 48, 49, 55, 45, 49, 49, 45, 51, 48, 84, 50, 51, 58, 48, 48, 58, 48, 48, 45, 48, 50, 58, 48, 48>>

\* "2017-12-01T03:00:00+02:00", the same instant a day later on the calendar
TsEarlyDay == <<50, 48, 49, 55, 45, 49, 50, 45, 48, 49, 84, 48, 51, 58, 48, 48, 58, 48, 48, 43, 48, 50, 58, 48, 48>>

\* "2017-12-01T04:00:00+02:00"
TsHourLater == <<50, 48, 49, 55, 45, 49, 50, 45, 48, 49, 84, 48, 52, 58, 48, 48, 58, 48, 48, 43, 48, 50, 58, 48, 48>>

\* the raw events fetched
LsRaw ==
    LeadRaw \cup
    {RawEvent(Join(<<TokProject, TokActivity>>), TsLateDay, TsHourLater),
     RawEvent(Join(<<TokProject, TokActivity, TokTagU>>), TsEarlyDay, TsHourLater)}

LsRawLists == {<<>>} \cup {<<r>> : r \in LsRaw} \cup {<<a, b>> : a, b \in LsRaw}

InitLs ==
    /\ rawInputs \in LsRawLists
    /\ parsed = Slice(<<>>)
    /\ parseRet = NoParseReturn
    /\ ppc = "loop"
    /\ PipelineIdle
    /\ OutputIdle

\* the events Parse returned are handed to Run with the config of the flags;
\* an error of Parse ends the command
LsRun ==
    /\ ppc = "done"
    /\ parseRet.err = NoParseError
    /\ pc = "idle"
    /\ config' \in Configs
    /\ inputs' = parseRet.events
    /\ mem' = callerMem(inputs')
    /\ pc' = "filter"
    /\ UNCHANGED <<afterFilter, afterAggregate, ret, calls, prev, parserVars,
                   outputVars>>

NextLs == ParseEvent \/ ParseReturn \/ LsRun \/ RunFilter \/ RunAggregate \/ RunTotal

SpecLs == InitLs /\ [][NextLs]_vars

----------------------------------------------------------------------------
(* What the stages are meant to compute, stated on their inputs and outputs *)

DateOf(t) == <<t.year, t.month, t.day>>

\* the Monday on or before a civil date (day 0, 1970-01-01, was a Thursday)
MondayOnOrBefore(t) ==
    LET days == DaysFromCivil(t.year, t.month, t.day)
    IN  CivilFromDays(days - ((days + 3) % 7))

\* the civil date a period starts on, read in the record's own offset
PeriodDate(policy, t) ==
    IF policy = "daily" THEN DateOf(t)
    ELSE IF policy = "monthly" THEN <<t.year, t.month, 1>>
    ELSE MondayOnOrBefore(t)

RECURSIVE SumDuration(_)
SumDuration(evs) ==
    IF evs = <<>> THEN 0 ELSE Head(evs).Duration + SumDuration(Tail(evs))

RECURSIVE SumAt(_, _)
SumAt(evs, idx) ==
    IF idx = {} THEN 0
    ELSE LET j == CHOOSE x \in idx : TRUE
         IN  evs[j].Duration + SumAt(evs, idx \ {j})

\* the records of evs in the bucket (date, project)
Bucket(policy, evs, date, project) ==
    {j \in 1..Len(evs) :
        PeriodDate(policy, evs[j].StartTime) = date /\ evs[j].Project = project}

OfProject(evs, project) == {j \in 1..Len(evs) : evs[j].Project = project}

BucketKeys(policy, evs) ==
    {<<PeriodDate(policy, evs[j].StartTime), evs[j].Project>> : j \in 1..Len(evs)}

\* out holds the per-bucket sums of in and nothing else
Grouped(policy, in, out) ==
    /\ \A i \in 1..Len(out) :
          LET g == Bucket(policy, in, DateOf(out[i].StartTime), out[i].Project)
          IN  /\ g # {}
              /\ out[i].StartTime.hour = 0
              /\ out[i].Duration = SumAt(in, g)
    /\ \A j \in 1..Len(in) :
          \E i \in 1..Len(out) :
              /\ DateOf(out[i].StartTime) = PeriodDate(policy, in[j].StartTime)
              /\ out[i].Project = in[j].Project

Aggregated == pc \in {"total", "done"} /\ config.Aggregate \in {"daily", "monthly"}

Totalled == pc = "done" /\ ret.err = NoError /\ config.Total

----------------------------------------------------------------------------
(* Claims *)

\* C1: Run returns the total stage applied to the aggregate stage applied to
\* the filter stage, the stages being called in that order, and a stage whose
\* option is unset hands its input on unchanged and in the same order.
C1_RunComposesStages ==
    pc = "done" =>
        LET f == maybeFilterByProject(config.Project, inputs)
            a == maybeAggregate(config.Aggregate, f)
        IN  /\ IF a.err # NoError
               THEN /\ ret = [events |-> NilSlice, err |-> a.err]
                    /\ calls = <<"maybeFilterByProject", "maybeAggregate">>
               ELSE /\ ret = [events |-> maybeComputeTotal(config.Total, a.outputs),
                              err |-> NoError]
                    /\ calls = <<"maybeFilterByProject", "maybeAggregate",
                                 "maybeComputeTotal">>
            /\ config.Project = EmptyString => afterFilter.elems = inputs.elems
            /\ config.Aggregate = "" =>
                  ret.err = NoError /\ afterAggregate.elems = afterFilter.elems
            /\ (ret.err = NoError /\ ~config.Total) =>
                  ret.events.elems = afterAggregate.elems

\* all three stages are active and each changes the list
C1_Witness ==
    /\ pc = "done"
    /\ config.Project # EmptyString
    /\ config.Aggregate = "daily"
    /\ config.Total
    /\ Len(afterFilter.elems) < Len(inputs.elems)
    /\ afterAggregate.elems # afterFilter.elems
    /\ Len(ret.events.elems) < Len(afterAggregate.elems)

\* C2: the filter stage returns exactly the records, in their original
\* order, whose Project is the configured one (or any, when unset) and whose
\* Tags hold the configured tag (or any, when unset).
C2_FilterByProjectAndTag ==
    pc # "filter" =>
        afterFilter.elems =
            SelectSeq(inputs.elems,
                      LAMBDA r : /\ config.Project = EmptyString
                                    \/ r.Project = config.Project
                                 /\ config.Tag = ""
                                    \/ config.Tag \in Range(r.Tags.elems))

\* C3: with policy daily or monthly the aggregate stage emits, per bucket
\* (day or first day of the month of StartTime, Project), one record at 00:00
\* whose Duration is the sum of the Durations of exactly that bucket's records.
C3_DailyMonthlyBuckets ==
    Aggregated => Grouped(config.Aggregate, afterFilter.elems, afterAggregate.elems)

\* two records of one project on different days of one month are summed
C3_Witness ==
    /\ pc = "total"
    /\ config.Aggregate = "monthly"
    /\ Len(afterAggregate.elems) = 2
    /\ \E j, k \in 1..Len(afterFilter.elems) :
          LET a == afterFilter.elems[j]
              b == afterFilter.elems[k]
          IN  /\ a.Project = b.Project
              /\ a.StartTime.month = b.StartTime.month
              /\ a.StartTime.day # b.StartTime.day
              /\ \E i \in 1..2 :
                    /\ afterAggregate.elems[i].Project = a.Project
                    /\ afterAggregate.elems[i].Duration = a.Duration + b.Duration

\* C4: with policy weekly Run succeeds and the aggregate stage sums Duration
\* per bucket (Monday on or before the record's civil day, Project).
C4_WeeklyBuckets ==
    (pc = "done" /\ config.Aggregate = "weekly") =>
        /\ ret.err = NoError
        /\ Grouped("weekly", afterFilter.elems, afterAggregate.elems)

\* C5: every record the aggregate stage emits starts at 00:00 with offset
\* zero, on the date of the period start as read in the source record's own
\* offset (the date is relabelled as UTC, not converted).
C5_PeriodStartRelabelledUTC ==
    Aggregated =>
        \A i \in 1..Len(afterAggregate.elems) :
            LET o == afterAggregate.elems[i]
            IN  /\ o.StartTime.offset = 0
                /\ o.StartTime.hour = 0
                /\ \E j \in 1..Len(afterFilter.elems) :
                      LET r == afterFilter.elems[j]
                      IN  /\ r.Project = o.Project
                          /\ DateOf(o.StartTime) =
                                PeriodDate(config.Aggregate, r.StartTime)

\* a lone record whose date in its own offset is not its UTC date
C5_Witness ==
    /\ Aggregated
    /\ config.Aggregate = "daily"
    /\ Len(afterFilter.elems) = 1
    /\ Len(afterAggregate.elems) = 1
    /\ LET t == afterFilter.elems[1].StartTime
       IN  /\ t.offset # 0
           /\ DateOf(UTC(t)) # DateOf(t)
           /\ DateOf(afterAggregate.elems[1].StartTime) = DateOf(t)

\* C6: with a policy that is none of unset, daily, weekly, monthly, Run fails
\* with InvalidAggregationPolicy and returns no list, whatever the input and
\* whether or not total is set, and the total stage is never called.
C6_InvalidPolicyFails ==
    config.Aggregate \notin {"", "daily", "weekly", "monthly"} =>
        /\ pc # "total"
        /\ pc = "done" =>
              /\ ret.err = InvalidAggregationPolicy(config.Aggregate)
              /\ ret.events = NilSlice
              /\ "maybeComputeTotal" \notin Range(calls)

C6_Witness ==
    /\ pc = "done"
    /\ config.Aggregate = "biweekly"
    /\ config.Total
    /\ Len(afterFilter.elems) > 0
    /\ ret.err.kind = "InvalidAggregationPolicy"

C8_AggregateConservesDuration ==
    (pc \in {"total", "done"} /\ ret.err = NoError) =>
        SumDuration(afterAggregate.elems) = SumDuration(afterFilter.elems)

\* buckets of several records, one of them with a negative duration
C8_Witness ==
    /\ Aggregated
    /\ Len(afterAggregate.elems) < Len(afterFilter.elems)
    /\ \E j \in 1..Len(afterFilter.elems) : afterFilter.elems[j].Duration < 0
    /\ SumDuration(afterFilter.elems) # 0

\* C9: the total stage, when enabled, emits one record per distinct Project
\* of its input, whose Duration is the sum over the input records of that
\* project; the Durations of the output sum to those of the input.
C9_TotalPerProject ==
    Totalled =>
        LET in  == afterAggregate.elems
            out == ret.events.elems
        IN  /\ Len(out) = Cardinality({in[j].Project : j \in 1..Len(in)})
            /\ {out[i].Project : i \in 1..Len(out)}
                  = {in[j].Project : j \in 1..Len(in)}
            /\ \A i \in 1..Len(out) :
                  out[i].Duration = SumAt(in, OfProject(in, out[i].Project))
            /\ SumDuration(out) = SumDuration(in)

C9_Witness ==
    /\ Totalled
    /\ Len(afterAggregate.elems) = 3
    /\ Len(ret.events.elems) = 2
    /\ SumDuration(ret.events.elems) # 0

\* C10: the StartTime of a project's total is that of the first record of
\* the project in the stage's input order, also when a later record of the
\* project starts earlier.
C10_TotalFirstWriteWins ==
    Totalled =>
        LET in  == afterAggregate.elems
            out == ret.events.elems
        IN  \A i \in 1..Len(out) :
                LET of == OfProject(in, out[i].Project)
                IN  /\ of # {}
                    /\ out[i].StartTime =
                          in[CHOOSE j \in of : \A k \in of : j <= k].StartTime

\* the second record of the project starts before the first
C10_Witness ==
    /\ Totalled
    /\ config.Aggregate = ""
    /\ Len(afterAggregate.elems) = 2
    /\ Len(ret.events.elems) = 1
    /\ Instant(afterAggregate.elems[2].StartTime)
          < Instant(afterAggregate.elems[1].StartTime)
    /\ ret.events.elems[1].StartTime = afterAggregate.elems[1].StartTime

\* C11: the total stage's output is ascending by Project with no project
\* twice, in whatever order the projects are met in its input.
C11_TotalSortedByProject ==
    Totalled =>
        LET out == ret.events.elems
        IN  \A i, j \in 1..Len(out) :
                i < j => LexLess(out[i].Project, out[j].Project)

\* the projects are met in descending order, one of them a prefix of another
C11_Witness ==
    /\ Totalled
    /\ config.Aggregate = ""
    /\ Len(afterAggregate.elems) = 3
    /\ Len(ret.events.elems) = 3
    /\ LexLess(afterAggregate.elems[3].Project, afterAggregate.elems[2].Project)
    /\ LexLess(afterAggregate.elems[2].Project, afterAggregate.elems[1].Project)

\* C12: every record the aggregate stage emits has an empty Activity and nil
\* Tags and Persons, whatever the source records carried.
C12_AggregateClearsFields ==
    Aggregated =>
        \A i \in 1..Len(afterAggregate.elems) :
            LET o == afterAggregate.elems[i]
            IN  o.Activity = "" /\ o.Tags = NilSlice /\ o.Persons = NilSlice

\* a source record with an activity, a tag and a person was aggregated
C12_Witness ==
    /\ Aggregated
    /\ Len(afterAggregate.elems) = 1
    /\ Len(afterFilter.elems) = 1
    /\ afterFilter.elems[1].Activity # ""
    /\ afterFilter.elems[1].Tags.elems # <<>>
    /\ afterFilter.elems[1].Persons.elems # <<>>
    /\ ~config.Total
    /\ pc = "done"
    /\ ret.events = afterAggregate

\* C13: every record the total stage emits has an empty Activity and empty,
\* non-nil Tags and Persons, also when its input comes from the aggregate
\* stage.
C13_TotalEmptySlices ==
    Totalled =>
        \A i \in 1..Len(ret.events.elems) :
            LET o == ret.events.elems[i]
            IN  o.Activity = "" /\ o.Tags = Slice(<<>>) /\ o.Persons = Slice(<<>>)

\* the total stage reads records with nil Tags and Persons
C13_Witness ==
    /\ Totalled
    /\ config.Aggregate = "daily"
    /\ Len(afterAggregate.elems) = 2
    /\ afterAggregate.elems[1].Tags = NilSlice
    /\ Len(ret.events.elems) = 2

\* C14: when no record reaches the later stages (empty input, or the filter
\* removes every record), Run returns without error an empty non-nil list if
\* total is set and a nil list if it is not, with no policy or with any of
\* the policies daily, weekly, monthly.
C14_EmptyResult ==
    (/\ pc = "done"
     /\ afterFilter.elems = <<>>
     /\ config.Aggregate \in {"", "daily", "weekly", "monthly"}) =>
        /\ ret.err = NoError
        /\ ret.events = IF config.Total THEN Slice(<<>>) ELSE NilSlice

----------------------------------------------------------------------------
(* What Parse is meant to compute, stated on the raw events *)

SpacesOf(s) == {i \in 1..Len(s) : s[i] = Space}

TokenCount(s) == Cardinality(SpacesOf(s)) + 1

\* the position of the k-th space; 0 and Len(s) + 1 bracket the string
KthSpace(s, k) ==
    IF k = 0 THEN 0
    ELSE IF k > Cardinality(SpacesOf(s)) THEN Len(s) + 1
    ELSE CHOOSE i \in SpacesOf(s) :
            Cardinality({j \in SpacesOf(s) : j < i}) = k - 1

TokenAt(s, k) == SubSeq(s, KthSpace(s, k - 1) + 1, KthSpace(s, k) - 1)

TokensOf(s) == [k \in 1..TokenCount(s) |-> TokenAt(s, k)]

StartsWith(token, c) == Len(token) >= 1 /\ token[1] = c

\* the positions of the tokens that start with c
WithSigil(s, c) == {k \in 1..TokenCount(s) : StartsWith(TokenAt(s, k), c)}

\* those among them that carry a name
Named(s, c) == {k \in WithSigil(s, c) : Len(TokenAt(s, k)) >= 2}

\* the names of the tokens that start with c, left to right
NamesOf(s, c) ==
    LET sel == SelectSeq(TokensOf(s), LAMBDA t : StartsWith(t, c))
    IN  [k \in 1..Len(sel) |-> Tail(sel[k])]

HasSigil(token) ==
    \E c \in {Dollar, Percent, Hash, At} : StartsWith(token, c)

\* the summary without the tokens that start with none of $ % # @
Strip(s) == Join(SelectSeq(TokensOf(s), HasSigil))

\* a token repeats a project or an activity that already has a name
ScanAborts(s) ==
    \E c \in {Dollar, Percent} :
        \E j \in Named(s, c) : \E k \in WithSigil(s, c) : j < k

\* the summary decodes: the scan ends with a named project and activity
SummaryValid(s) ==
    ~ScanAborts(s) /\ Named(s, Dollar) # {} /\ Named(s, Percent) # {}

DigitsAt(s, positions) == \A i \in positions : IsDigitAt(s, i)

\* the form YYYY-MM-DDTHH:MM:SS+HH:MM or ...-HH:MM
CanonicalForm(s) ==
    /\ Len(s) = 25
    /\ DigitsAt(s, {1, 2, 3, 4, 6, 7, 9, 10, 12, 13, 15, 16, 18, 19,
                   21, 22, 24, 25})
    /\ s[5] = Dash /\ s[8] = Dash /\ s[11] = LetterT
    /\ s[14] = Colon /\ s[17] = Colon /\ s[23] = Colon
    /\ s[20] \in {Plus, Dash}

\* where the offset of a time string starts, and where its first colon is
SignAt(s) == Len(s) - 5

FirstColon(s) == CHOOSE i \in 1..Len(s) : s[i] = Colon /\ \A j \in 1..(i - 1) : s[j] # Colon

\* the fields of a time string, read at their places
FieldsOf(s) ==
    LET c == FirstColon(s)
        p == SignAt(s)
        sg == IF s[p] = Plus THEN 1 ELSE -1
    IN  [year |-> atoi(s, 1, 4), month |-> atoi(s, 6, 7), day |-> atoi(s, 9, 10),
         hour |-> atoi(s, 12, c - 1), minute |-> atoi(s, c + 1, c + 2),
         second |-> atoi(s, c + 4, c + 5),
         msec |-> IF c + 6 < p THEN fractionMs(s, c + 7, p) ELSE 0,
         offsetMinutes |-> sg * (atoi(s, p + 1, p + 2) * 60 + atoi(s, p + 4, p + 5))]

\* what the layout 2006-01-02T15:04:05-07:00 admits: the canonical form with
\* fields in range, the hour also written with one digit, the seconds also
\* followed by a period or comma and digits
AcceptedForm(s) ==
    \E hl \in {1, 2} : \E fl \in {0} \cup (2..Len(s)) :
        LET c == 11 + hl + 1
            p == c + 6 + fl
        IN  /\ Len(s) = p + 5
            /\ DigitsAt(s, {1, 2, 3, 4, 6, 7, 9, 10} \cup (12..(c - 1))
                           \cup {c + 1, c + 2, c + 4, c + 5}
                           \cup ((c + 7)..(p - 1))
                           \cup {p + 1, p + 2, p + 4, p + 5})
            /\ s[5] = Dash /\ s[8] = Dash /\ s[11] = LetterT
            /\ s[c] = Colon /\ s[c + 3] = Colon /\ s[p + 3] = Colon
            /\ fl > 0 => s[c + 6] \in {Period, Comma}
            /\ s[p] \in {Plus, Dash}
            /\ LET f == FieldsOf(s)
               IN  /\ f.month \in 1..12
                   /\ f.day >= 1 /\ f.day <= DaysIn(f.year, f.month)
                   /\ f.hour < 24 /\ f.minute < 60 /\ f.second < 60
                   /\ atoi(s, p + 1, p + 2) <= 24 /\ atoi(s, p + 4, p + 5) <= 60

\* the span from the instant written by a to the instant written by b, in
\* milliseconds
SpanBetween(a, b) ==
    LET fa == FieldsOf(a)
        fb == FieldsOf(b)
        ms(f) == ((f.hour * 60 + f.minute - f.offsetMinutes) * 60 + f.second) * 1000
                    + f.msec
    IN  (DaysFromCivil(fb.year, fb.month, fb.day)
            - DaysFromCivil(fa.year, fa.month, fa.day)) * 86400000
          + ms(fb) - ms(fa)

\* the raw events decoded so far, by position
Decoded == 1..Len(parsed.elems)

\* Parse has returned an error; FailedRaw is the raw event it stopped at
Failed == ppc = "done" /\ parseRet.err # NoParseError

FailedRaw == rawInputs[Len(parsed.elems) + 1]

----------------------------------------------------------------------------
(* Claims about Parse *)

\* C15: a summary with two or more tokens starting with $ fails with
\* MultipleProjects and one with two or more tokens starting with % fails
\* with MultipleActivities (stated where only one of the two is repeated);
\* the error carries the raw event.
C15_RepeatedSigilFails ==
    /\ \A i \in Decoded :
          /\ Cardinality(WithSigil(rawInputs[i].Summary, Dollar)) <= 1
          /\ Cardinality(WithSigil(rawInputs[i].Summary, Percent)) <= 1
    /\ Failed =>
          LET sm == FailedRaw.Summary
              np == Cardinality(WithSigil(sm, Dollar))
              na == Cardinality(WithSigil(sm, Percent))
          IN  /\ (np >= 2 /\ na <= 1) =>
                    parseRet.err = ParseError("MultipleProjects", FailedRaw, "")
              /\ (na >= 2 /\ np <= 1) =>
                    parseRet.err = ParseError("MultipleActivities", FailedRaw, "")

\* C16: when the scan of the summary ends without a named project or without
\* a named activity, Parse fails with MissingProjectOrActivity; every record
\* Parse decodes has a non-empty Project and a non-empty Activity.
C16_MissingProjectOrActivity ==
    /\ \A i \in Decoded :
          /\ parsed.elems[i].Project # <<>>
          /\ parsed.elems[i].Activity # <<>>
          /\ Named(rawInputs[i].Summary, Dollar) # {}
          /\ Named(rawInputs[i].Summary, Percent) # {}
    /\ Failed =>
          LET sm == FailedRaw.Summary
          IN  (/\ ~ScanAborts(sm)
               /\ Named(sm, Dollar) = {} \/ Named(sm, Percent) = {}) =>
                  parseRet.err = ParseError("MissingProjectOrActivity", FailedRaw, "")

\* a bare $ next to a named activity
C16_Witness ==
    /\ Failed
    /\ parseRet.err.kind = "MissingProjectOrActivity"
    /\ WithSigil(FailedRaw.Summary, Dollar) # {}
    /\ Named(FailedRaw.Summary, Dollar) = {}
    /\ Named(FailedRaw.Summary, Percent) # {}

\* C17: tokens that start with none of $ % # @, the empty ones included, are
\* ignored: a raw event decodes to the same record, or fails with the same
\* kind of error, as the raw event whose summary lacks those tokens.
C17_OtherTokensIgnored ==
    /\ \A i \in Decoded :
          LET raw == rawInputs[i]
              r   == parseAll(NewEvent, [raw EXCEPT !.Summary = Strip(@)])
          IN  r.err = NoParseError /\ r.e = parsed.elems[i]
    /\ Failed =>
          LET r == parseAll(NewEvent, [FailedRaw EXCEPT !.Summary = Strip(@)])
          IN  r.err.kind = parseRet.err.kind

\* a decoded summary that holds a word and an empty token
C17_Witness ==
    /\ ppc = "done"
    /\ Len(parsed.elems) = 1
    /\ parseRet.err = NoParseError
    /\ \E j, k \in 1..TokenCount(rawInputs[1].Summary) :
          /\ TokenAt(rawInputs[1].Summary, j) = <<>>
          /\ TokenAt(rawInputs[1].Summary, k) = TokWord
          /\ j < k /\ k < TokenCount(rawInputs[1].Summary)

\* C18: a summary made of one $project, one %activity, tags and persons
\* (names non-empty for the project and the activity), joined by single
\* spaces in any order, decodes to that Project and Activity and to the tag
\* names and the person names, each left to right, duplicates kept, as
\* non-nil lists.
RoundTripShape(s) ==
    /\ \A k \in 1..TokenCount(s) : HasSigil(TokenAt(s, k))
    /\ Cardinality(WithSigil(s, Dollar)) = 1
    /\ Cardinality(WithSigil(s, Percent)) = 1
    /\ Named(s, Dollar) # {} /\ Named(s, Percent) # {}

C18_GrammarRoundTrip ==
    /\ \A i \in Decoded :
          LET sm == rawInputs[i].Summary
              e  == parsed.elems[i]
          IN  RoundTripShape(sm) =>
                  /\ e.Project = NamesOf(sm, Dollar)[1]
                  /\ e.Activity = NamesOf(sm, Percent)[1]
                  /\ e.Tags = Slice(NamesOf(sm, Hash))
                  /\ e.Persons = Slice(NamesOf(sm, At))
    /\ Failed =>
          ~(/\ RoundTripShape(FailedRaw.Summary)
            /\ AcceptedForm(FailedRaw.StartTime)
            /\ AcceptedForm(FailedRaw.EndTime))

\* the same tag twice, around the project, and no person
C18_Witness ==
    /\ ppc = "done"
    /\ Len(parsed.elems) = 1
    /\ rawInputs[1].Summary = Join(<<TokTagT, TokProject, TokTagT, TokActivity>>)
    /\ parsed.elems[1].Tags = Slice(<<Tail(TokTagT), Tail(TokTagT)>>)
    /\ parsed.elems[1].Persons = Slice(<<>>)

\* C19: the Duration of a decoded record is the span from the start instant
\* to the end instant, offsets taken into account, negative when the end
\* precedes the start.
C19_DurationIsSignedSpan ==
    \A i \in Decoded :
        parsed.elems[i].Duration =
            SpanBetween(rawInputs[i].StartTime, rawInputs[i].EndTime)

\* the end precedes the start although its wall clock reads later
C19_Witness ==
    /\ ppc = "done"
    /\ Len(parsed.elems) = 1
    /\ parsed.elems[1].Duration < 0
    /\ rawInputs[1].StartTime = TsOtherOffset
    /\ rawInputs[1].EndTime = TsEleven

\* C20 as claimed: with a valid summary, a StartTime that is not of the form
\* YYYY-MM-DDTHH:MM:SS+-HH:MM fails with InvalidStartTime, and a valid
\* StartTime with an EndTime not of that form fails with InvalidEndTime.
C20_CanonicalFormOnly ==
    /\ \A i \in Decoded :
          /\ CanonicalForm(rawInputs[i].StartTime)
          /\ CanonicalForm(rawInputs[i].EndTime)
    /\ (Failed /\ SummaryValid(FailedRaw.Summary)) =>
          IF ~CanonicalForm(FailedRaw.StartTime)
          THEN parseRet.err.kind = "InvalidStartTime"
          ELSE ~CanonicalForm(FailedRaw.EndTime)
                  => parseRet.err.kind = "InvalidEndTime"

\* C20 as amended: with a valid summary, a StartTime that the layout
\* 2006-01-02T15:04:05-07:00 does not admit fails with InvalidStartTime, and
\* an admitted StartTime with an EndTime that is not admitted fails with
\* InvalidEndTime; the error wraps the cause and carries the raw event, and
\* Parse returns no record.
C20_InvalidTimesFail ==
    /\ \A i \in Decoded :
          /\ AcceptedForm(rawInputs[i].StartTime)
          /\ AcceptedForm(rawInputs[i].EndTime)
    /\ Failed => parseRet.events = NilSlice
    /\ (Failed /\ SummaryValid(FailedRaw.Summary)) =>
          /\ parseRet.err.event = FailedRaw
          /\ parseRet.err.cause # ""
          /\ IF ~AcceptedForm(FailedRaw.StartTime)
             THEN parseRet.err.kind = "InvalidStartTime"
             ELSE /\ ~AcceptedForm(FailedRaw.EndTime)
                  /\ parseRet.err.kind = "InvalidEndTime"

\* the start is admitted with a fraction of a second, the end is not a time
C20_Witness ==
    /\ Failed
    /\ parseRet.err.kind = "InvalidEndTime"
    /\ FailedRaw.StartTime = TsFraction
    /\ FailedRaw.EndTime = TsZulu

\* the raw events that do not decode, by position
Undecodable == {i \in 1..Len(rawInputs) : ~SummaryValid(rawInputs[i].Summary)
                                          \/ ~AcceptedForm(rawInputs[i].StartTime)
                                          \/ ~AcceptedForm(rawInputs[i].EndTime)}

\* C21: Parse is all-or-nothing. It returns no error and a non-nil list with
\* one record per raw event in input order (the empty list for no input), or
\* an error and no list; the error is that of the first raw event that does
\* not decode, whatever was decoded before it.
C21_AllOrNothing ==
    ppc = "done" =>
        IF Undecodable = {}
        THEN /\ parseRet.err = NoParseError
             /\ ~parseRet.events.isNil
             /\ Len(parseRet.events.elems) = Len(rawInputs)
             /\ \A i \in 1..Len(rawInputs) :
                   parseRet.events.elems[i] = parseAll(NewEvent, rawInputs[i]).e
        ELSE LET k == CHOOSE i \in Undecodable : \A j \in Undecodable : i <= j
             IN  /\ parseRet.events = NilSlice
                 /\ parseRet.err = parseAll(NewEvent, rawInputs[k]).err
                 /\ parseRet.err.event = rawInputs[k]
                 /\ parseRet.err # NoParseError

\* a record was decoded before the raw event that fails
C21_Witness ==
    /\ ppc = "done"
    /\ Len(rawInputs) = 2
    /\ Len(parsed.elems) = 1
    /\ parseRet.err.kind = "InvalidStartTime"
    /\ parseRet.events = NilSlice

----------------------------------------------------------------------------
(* Further claims about Run *)

\* the filter stage has returned
Filtered == pc \in {"aggregate", "total", "done"}

\* C22: the filter is idempotent. Applied to its own output with the same
\* setting, the filter stage returns the same records in the same order.
C22_FilterIdempotent ==
    Filtered => maybeFilterByProject(config.Project, afterFilter) = afterFilter

\* the filter kept some records and dropped others
C22_Witness ==
    /\ Filtered
    /\ afterFilter.elems # <<>>
    /\ Len(afterFilter.elems) < Len(inputs.elems)
    /\ config.Project # EmptyString

\* the array a list of the call points to
ArrayOf(name) == mem.arrays[mem.at[name]]

\* C23: Run never modifies the list it is given nor a record in it, and each
\* of the three stages, also when its option is unset, returns a newly built
\* list, never the list it received.
C23_FreshLists ==
    /\ mem.at.inputs # 0 => ArrayOf("inputs") = inputs.elems
    /\ (Filtered /\ mem.at.afterFilter # 0) =>
          mem.at.afterFilter # mem.at.inputs
    /\ (pc \in {"total", "done"} /\ mem.at.afterAggregate # 0) =>
          mem.at.afterAggregate # mem.at.afterFilter
    /\ (pc = "done" /\ mem.at.ret # 0) =>
          mem.at.ret # mem.at.afterAggregate

\* C24: Run is a function of (config, records). A call with the same config
\* and the same list as the call before returns the same error or the same
\* records in the same order, whatever order the maps yield their keys in.
C24_RunDeterministic ==
    (pc = "done" /\ prev # <<>>) => ret = prev[1]

\* a second call that grouped two periods and two projects
C24_Witness ==
    /\ pc = "done"
    /\ prev # <<>>
    /\ config.Aggregate = "daily"
    /\ Cardinality(DOMAIN sumsOf(config.Aggregate, afterFilter)) >= 2
    /\ Cardinality(ProjectsOf(afterFilter)) >= 2
    /\ ret.err = NoError

\* C25 as claimed: the InvalidAggregationPolicy error message states the
\* offending policy value and the three valid choices daily, weekly and
\* monthly.
C25_MessageNamesThreeChoices ==
    ret.err.kind = "InvalidAggregationPolicy" =>
        /\ ret.err.policy = config.Aggregate
        /\ ret.err.valid = <<"daily", "weekly", "monthly">>

\* C25 as amended: the InvalidAggregationPolicy error message states the
\* offending policy value and names daily and monthly as the valid values.
C25_MessageNamesPolicy ==
    ret.err.kind = "InvalidAggregationPolicy" =>
        /\ ret.err.policy = config.Aggregate
        /\ ret.err.policy # ""
        /\ ret.err.valid = <<"daily", "monthly">>

\* a policy that no version accepts was refused on an empty list
C25_Witness ==
    /\ pc = "done"
    /\ ret.err.kind = "InvalidAggregationPolicy"
    /\ ret.err.policy = "biweekly"
    /\ inputs.elems = <<>>

----------------------------------------------------------------------------
(* Claims about Write *)

\* C26: Write with a format other than box, csv, invoice or json fails with
\* UnknownFormat, which names the four formats, and writes nothing, whatever
\* the records; with one of the four formats it does not fail on account of
\* the format.
C26_UnknownFormatFails ==
    wpc = "done" =>
        IF format \in {"box", "csv", "invoice", "json"}
        THEN werr.kind # "UnknownFormat"
        ELSE /\ werr.kind = "UnknownFormat"
             /\ werr.valid = <<"box", "csv", "invoice", "json">>
             /\ written = <<>>

\* a known format in upper case met with records to write
C26_Witness ==
    /\ wpc = "done"
    /\ format = "JSON"
    /\ events.elems # <<>>
    /\ werr.kind = "UnknownFormat"

----------------------------------------------------------------------------
(* Further claims about Parse *)

\* the second position of a set of positions, 0 when there is none
SecondOf(S) ==
    IF Cardinality(S) < 2 THEN 0
    ELSE CHOOSE k \in S : Cardinality({j \in S : j < k}) = 1

\* the kind of error the precedence of C27 gives a raw event, "nil" for none
KindByPrecedence(raw) ==
    LET repP == SecondOf(WithSigil(raw.Summary, Dollar))
        repA == SecondOf(WithSigil(raw.Summary, Percent))
    IN  IF repP # 0 /\ (repA = 0 \/ repP < repA) THEN "MultipleProjects"
        ELSE IF repA # 0 THEN "MultipleActivities"
        ELSE IF Named(raw.Summary, Dollar) = {} \/ Named(raw.Summary, Percent) = {}
        THEN "MissingProjectOrActivity"
        ELSE IF ~AcceptedForm(raw.StartTime) THEN "InvalidStartTime"
        ELSE IF ~AcceptedForm(raw.EndTime) THEN "InvalidEndTime"
        ELSE "nil"

\* C27: the defects of one raw event are reported in a fixed precedence. The
\* first repeated project or activity token, left to right, fails at once
\* (two projects and no activity: MultipleProjects); then
\* MissingProjectOrActivity; then, the summary accepted, InvalidStartTime
\* before InvalidEndTime.
C27_ErrorPrecedence ==
    /\ \A i \in Decoded : KindByPrecedence(rawInputs[i]) = "nil"
    /\ Failed => parseRet.err.kind = KindByPrecedence(FailedRaw)

----------------------------------------------------------------------------
(* Claims about Parse followed by Run *)

\* the calendar date a time string writes
WrittenDate(s) == SubSeq(s, 1, 10)

\* the records of the aggregate output for project p on the date written as d
DailyBucket(p, d) ==
    {k \in 1..Len(afterAggregate.elems) :
        /\ afterAggregate.elems[k].Project = p
        /\ Format(afterAggregate.elems[k].StartTime, timeFormatOf("daily")) = d}

\* the instant a time string writes: minutes since 0001-01-01T00:00Z, then
\* seconds and milliseconds
MinuteOf(s) ==
    LET f == FieldsOf(s)
    IN  <<DaysFromCivil(f.year, f.month, f.day) * 1440
            + f.hour * 60 + f.minute - f.offsetMinutes,
          f.second, f.msec>>

\* raw events i and j start at the same instant on different written dates
SameInstantOtherDate(i, j) ==
    /\ MinuteOf(rawInputs[i].StartTime) = MinuteOf(rawInputs[j].StartTime)
    /\ WrittenDate(rawInputs[i].StartTime) # WrittenDate(rawInputs[j].StartTime)

\* C28: a decoded record keeps the offset written in its raw StartTime, and
\* the aggregate stage reads the calendar date in that offset: two records of
\* one project that start at the same instant, written with offsets that put
\* them on different dates, fall into different daily buckets.
C28_OffsetKept ==
    /\ \A i \in Decoded :
          LET t == parsed.elems[i].StartTime
              f == FieldsOf(rawInputs[i].StartTime)
          IN  /\ t.offset * 60 + t.offsetMinute = f.offsetMinutes
              /\ <<t.year, t.month, t.day, t.hour>> = <<f.year, f.month, f.day, f.hour>>
    /\ (pc \in {"total", "done"} /\ config.Aggregate = "daily") =>
          \A i, j \in 1..Len(afterFilter.elems) :
              (/\ afterFilter.elems[i].Project = afterFilter.elems[j].Project
               /\ config.Project = EmptyString
               /\ SameInstantOtherDate(i, j)) =>
                  LET p  == afterFilter.elems[i].Project
                      bi == DailyBucket(p, WrittenDate(rawInputs[i].StartTime))
                      bj == DailyBucket(p, WrittenDate(rawInputs[j].StartTime))
                  IN  /\ Cardinality(bi) = 1 /\ Cardinality(bj) = 1
                      /\ bi # bj

\* two such records went through the daily aggregation
C28_Witness ==
    /\ pc = "done"
    /\ config.Aggregate = "daily"
    /\ config.Project = EmptyString
    /\ Len(afterFilter.elems) = 2
    /\ afterFilter.elems[1].Project = afterFilter.elems[2].Project
    /\ SameInstantOtherDate(1, 2)
    /\ Len(afterAggregate.elems) = 2

----------------------------------------------------------------------------
(* Claims about the aggregate and total stages together *)

\* the days from the epoch of a civil date <<year, month, day>>
DayNumber(date) == DaysFromCivil(date[1], date[2], date[3])

\* the earliest period start among the records idx of evs
EarliestPeriod(policy, evs, idx) ==
    LET dates == {PeriodDate(policy, evs[j].StartTime) : j \in idx}
    IN  CHOOSE d \in dates : \A e \in dates : DayNumber(d) <= DayNumber(e)

\* C29: with a valid aggregation policy and total both enabled, the StartTime
\* of each output record is the earliest period start among the buckets of
\* its project, labelled UTC, in whatever order the records were given, and
\* its Duration is the sum over all the buckets of the project.
C29_TotalOfAggregate ==
    (Totalled /\ config.Aggregate \in {"daily", "weekly", "monthly"}) =>
        LET in  == afterFilter.elems
            out == ret.events.elems
        IN  \A i \in 1..Len(out) :
                LET of == OfProject(in, out[i].Project)
                    d  == EarliestPeriod(config.Aggregate, in, of)
                IN  /\ of # {}
                    /\ out[i].StartTime = Time(d[1], d[2], d[3], 0, 0)
                    /\ out[i].Duration = SumAt(in, of)

\* the project's first record lies in a later period than its second
C29_Witness ==
    /\ Totalled
    /\ config.Aggregate = "daily"
    /\ Len(afterFilter.elems) = 2
    /\ Len(afterAggregate.elems) = 2
    /\ Len(ret.events.elems) = 1
    /\ DayNumber(DateOf(afterFilter.elems[2].StartTime))
          < DayNumber(DateOf(afterFilter.elems[1].StartTime))

\* C30: filtering by project commutes with aggregation. For every accepted
\* policy and every project, the aggregate of the records of the project is
\* the list of the records of the project in the aggregate of all records.
C30_FilterCommutesWithAggregate ==
    (pc \in {"total", "done"}
        /\ config.Aggregate \in {"daily", "weekly", "monthly"}) =>
        LET all == maybeAggregate(config.Aggregate, inputs)
        IN  IF all.err # NoError
            THEN ret.err = all.err /\ afterAggregate = NilSlice
            ELSE afterAggregate = maybeFilterByProject(config.Project, all.outputs)

\* a bucket of the aggregate of all records holds two projects, one kept
C30_Witness ==
    /\ pc = "done"
    /\ config.Aggregate = "daily"
    /\ config.Project = nexa
    /\ Len(afterAggregate.elems) = 1
    /\ Len(maybeAggregate(config.Aggregate, inputs).outputs.elems) = 2
    /\ Len(inputs.elems) = 3
    /\ Cardinality({DateOf(inputs.elems[i].StartTime) : i \in 1..3}) = 1

====
